---- MODULE Spec2Model ----
(***************************************************************************)
(* Model of package csvprober (src/prober.go): CSVProber.Probe trial-parses *)
(* a byte stream under each candidate delimiter, summarises the per-record  *)
(* field counts with genstatdata and ranks the candidates with Less.        *)
(*                                                                          *)
(* The byte stream, the bytes.Buffer w, the io.TeeReader and the            *)
(* bufio.Reader inside csv.Reader are modelled byte by byte, because Probe  *)
(* hands the SAME buffer w to io.TeeReader as source and as sink from the   *)
(* second pass on (line 128: r = w, line 97: io.TeeReader(r, w)).           *)
(*                                                                          *)
(* Abstractions:                                                            *)
(*  - bytes are drawn from Alphabet (no quote and no carriage return), so a *)
(*    record is a non-empty line and its field count is 1 + the number of   *)
(*    delimiter bytes in it;                                                *)
(*  - float64 Mean and Stddev are kept exact: Mean as a reduced fraction,   *)
(*    Stddev as the square root of a reduced fraction;                      *)
(*  - the 4096-byte bufio buffer is scaled down to BufSize bytes;           *)
(*  - a csvreader.Read() that never returns (the replayed buffer holds no   *)
(*    line end, so the reader circles in it for ever) is the state "hang".  *)
(***************************************************************************)
EXTENDS Integers, Sequences, FiniteSets, TLC

\* ---------------------------------------------------------------- bounds
MaxLen == 4
MaxBudget == 2
MaxDelims == 2
BufSize == 3

\* ------------------------------------------------------- program constants
ProbeRecords == 200
DefaultDelims == <<",", ";", "#", "|">>

NL == "\n"
Alphabet == {",", ";", NL, "a"}
Candidates == {",", ";"}
Nil == [nil |-> TRUE]

\* ---------------------------------------------------------------- helpers
Take(s, n) == SubSeq(s, 1, n)
Drop(s, n) == SubSeq(s, n + 1, Len(s))
Min2(a, b) == IF a < b THEN a ELSE b
Range(s) == {s[k] : k \in 1..Len(s)}
SeqsUpTo(S, n) == UNION {[1..k -> S] : k \in 0..n}
Abs(a) == IF a < 0 THEN -a ELSE a

RECURSIVE Gcd(_, _)
Gcd(a, b) == IF b = 0 THEN a ELSE Gcd(b, a % b)

\* float64(a) / float64(b), kept exact as a reduced fraction (b > 0)
Rat(a, b) ==
  LET g == Gcd(Abs(a), b)
  IN  [num |-> a \div g, den |-> b \div g]

RatLess(x, y) == x.num * y.den < y.num * x.den

\* math.Sqrt(a / b), kept exact as the root of a reduced fraction
Sqrt(a, b) == [sq |-> Rat(a, b)]

\* ------------------------------------------------------------ sort.IntSlice
RECURSIVE InsertInt(_, _)
InsertInt(s, x) ==
  IF s = <<>> THEN <<x>>
  ELSE IF x < Head(s) THEN <<x>> \o s
  ELSE <<Head(s)>> \o InsertInt(Tail(s), x)

RECURSIVE SortInts(_)
SortInts(s) == IF s = <<>> THEN <<>> ELSE InsertInt(SortInts(Take(s, Len(s) - 1)), s[Len(s)])

RECURSIVE SumSeq(_)
SumSeq(s) == IF s = <<>> THEN 0 ELSE Head(s) + SumSeq(Tail(s))

RECURSIVE SumSquares(_)
SumSquares(s) == IF s = <<>> THEN 0 ELSE Head(s) * Head(s) + SumSquares(Tail(s))

\* Go slices are indexed from 0, TLA+ sequences from 1
At(data, k) == data[k + 1]

\* prober.go:55-75; the caller never passes an empty slice (line 119)
genstatdata(numrecords) ==
  LET data == SortInts(numrecords)
      n == Len(data)
      sum == SumSeq(data)
      squaresum == SumSquares(data)
  IN  [Min |-> At(data, 0),
       LQ |-> At(data, n \div 4),
       Median |-> At(data, n \div 2),
       UQ |-> At(data, (n \div 4) * 3),
       Max |-> At(data, n - 1),
       Mean |-> Rat(sum, n),
       Stddev |-> Sqrt(n * squaresum - sum * sum, n * n)]

\* Stddev / Mean, squared: both are >= 0, so the order of the squares is the
\* order of the coefficients of variation.  Mean > 0: a record has >= 1 field.
CvSquared(e) ==
  [num |-> e.Stddev.sq.num * e.Mean.den * e.Mean.den,
   den |-> e.Stddev.sq.den * e.Mean.num * e.Mean.num]

\* Less with the comparison turned round (cva > cvb)
Less_Descending(a, b) == RatLess(CvSquared(b), CvSquared(a))

\* Less with a non-strict comparison (cva <= cvb)
Less_NonStrict(a, b) == ~RatLess(CvSquared(b), CvSquared(a))

\* prober.go:44-50, on two entries
Less(a, b) == RatLess(CvSquared(a), CvSquared(b))

\* sort.Sort on fewer than 13 elements is insertion sort:
\*   for i := a+1; i < b; i++ { for j := i; j > a && Less(j, j-1); j-- { Swap(j, j-1) } }
RECURSIVE InsertEntry(_, _)
InsertEntry(s, x) ==
  IF s = <<>> THEN <<x>>
  ELSE IF Less(x, s[Len(s)]) THEN InsertEntry(Take(s, Len(s) - 1), x) \o <<s[Len(s)]>>
  ELSE s \o <<x>>

RECURSIVE SortProb(_)
SortProb(s) == IF s = <<>> THEN <<>> ELSE InsertEntry(SortProb(Take(s, Len(s) - 1)), s[Len(s)])

\* ------------------------------------------------- the reader stack of a pass
\* st: [buf, berr, src, w, pulled, acc, line, lerr, data, rerr, rIsW, srcErr]

\* The reader without the copy into w (csv.NewReader(r) in place of
\* csv.NewReader(io.TeeReader(r, w)))
TeeRead_NoCopy(st, n) ==
  IF st.rIsW
  THEN IF st.w = <<>>
       THEN [st EXCEPT !.data = <<>>, !.rerr = "EOF"]
       ELSE LET k == Min2(n, Len(st.w))
                d == Take(st.w, k)
            IN  [st EXCEPT !.w = Drop(st.w, k), !.data = d, !.rerr = "nil",
                           !.pulled = @ \o d]
  ELSE IF st.src = <<>>
       THEN [st EXCEPT !.data = <<>>, !.rerr = st.srcErr]
       ELSE LET k == Min2(n, Len(st.src))
                d == Take(st.src, k)
            IN  [st EXCEPT !.src = Drop(st.src, k), !.data = d, !.rerr = "nil",
                           !.pulled = @ \o d]

\* io.TeeReader(r, w).Read(p) with len(p) = n (prober.go:97).  r is the caller's
\* reader in the first pass and the buffer w itself afterwards (prober.go:128):
\* what is read from the front of w is written back to its end.
TeeRead(st, n) ==
  IF st.rIsW
  THEN IF st.w = <<>>
       THEN [st EXCEPT !.data = <<>>, !.rerr = "EOF"]
       ELSE LET k == Min2(n, Len(st.w))
                d == Take(st.w, k)
            IN  [st EXCEPT !.w = Drop(st.w, k) \o d, !.data = d, !.rerr = "nil",
                           !.pulled = @ \o d]
  ELSE IF st.src = <<>>
       THEN [st EXCEPT !.data = <<>>, !.rerr = st.srcErr]
       ELSE LET k == Min2(n, Len(st.src))
                d == Take(st.src, k)
            IN  [st EXCEPT !.src = Drop(st.src, k), !.w = @ \o d, !.data = d,
                           !.rerr = "nil", !.pulled = @ \o d]

\* bufio.Reader.fill of the csv.Reader built at prober.go:97
fill(st) ==
  LET t == TeeRead(st, BufSize - Len(st.buf))
  IN  [t EXCEPT !.buf = st.buf \o t.data, !.berr = t.rerr]

IndexNL(s) ==
  IF NL \in Range(s) THEN CHOOSE k \in 1..Len(s) : s[k] = NL /\ \A j \in 1..(k - 1) : s[j] # NL
  ELSE 0

\* csv.Reader.readLine over bufio.Reader.ReadSlice('\n'), called by Read (prober.go:105)
RECURSIVE readLine(_)
readLine(st) ==
  LET k == IndexNL(st.buf)
  IN  IF k > 0
      THEN [st EXCEPT !.line = st.acc \o Take(st.buf, k), !.buf = Drop(st.buf, k),
                      !.acc = <<>>, !.lerr = "nil"]
      ELSE IF st.berr # "nil"
      THEN LET ln == st.acc \o st.buf
           IN  [st EXCEPT !.line = ln, !.buf = <<>>, !.acc = <<>>, !.berr = "nil",
                          !.lerr = IF Len(ln) > 0 /\ st.berr = "EOF" THEN "nil" ELSE st.berr]
      ELSE IF Len(st.buf) >= BufSize
      THEN readLine([st EXCEPT !.acc = st.acc \o st.buf, !.buf = <<>>])
      ELSE readLine(fill(st))

CountByte(s, b) == Cardinality({k \in 1..Len(s) : s[k] = b})

\* csvreader.Read() with Comma = delim, FieldsPerRecord = -1, LazyQuotes = true
\* (prober.go:99-105).  err is "nil", "EOF" or the source's read error; with these
\* settings encoding/csv raises no *csv.ParseError.
RECURSIVE Read(_, _)
Read(st, delim) ==
  LET t == readLine(st)
  IN  IF t.lerr = "nil" /\ t.line = <<NL>> THEN Read(t, delim)
      ELSE IF t.lerr = "EOF" THEN [st |-> t, err |-> "EOF", data |-> 0]
      ELSE [st |-> t, err |-> t.lerr, data |-> 1 + CountByte(t.line, delim)]

\* ------------------------------------------------------------------- state
VARIABLES
  p,               \* the CSVProber: RecordstoProbe, Delimiters
  input,           \* the content of the caller's reader
  srcErr,          \* what the caller's reader returns once the content is read
  src,             \* the content of the caller's reader not yet read
  w,               \* the bytes.Buffer w
  rIsW,            \* r == w (after line 128)
  didx,            \* position of the range loop in p.Delimiters
  pc,              \* "range", "loop", "done", "failed", "hang"
  i, recordstoprobe, numrecords, prob,
  buf, berr,       \* the bufio.Reader of csvreader: unread bytes, pending error
  lastErr,         \* err of the latest csvreader.Read()
  result, err,     \* what Probe returned
  pulled,          \* bytes this pass has read from r
  passlog          \* per finished pass: delimiter, records consumed, field counts,
                   \* bytes read from r, entries appended to prob

vars == <<p, input, srcErr, src, w, rIsW, didx, pc, i, recordstoprobe, numrecords,
          prob, buf, berr, lastErr, result, err, pulled, passlog>>

\* prober.go:144-149
NewProber == [RecordstoProbe |-> ProbeRecords, Delimiters |-> DefaultDelims]

Configs ==
  {NewProber} \cup
  {[RecordstoProbe |-> b, Delimiters |-> d] : b \in 1..MaxBudget, d \in SeqsUpTo(Candidates, MaxDelims)}

Init ==
  /\ p \in Configs
  /\ input \in SeqsUpTo(Alphabet, MaxLen)
  /\ srcErr \in {"EOF", "io"}
  /\ src = input
  /\ w = <<>>
  /\ rIsW = FALSE
  /\ didx = 1
  /\ pc = "range"
  /\ i = 0
  /\ recordstoprobe = p.RecordstoProbe
  /\ numrecords = <<>>
  /\ prob = <<>>
  /\ buf = <<>>
  /\ berr = "nil"
  /\ lastErr = "none"
  /\ result = Nil
  /\ err = "nil"
  /\ pulled = <<>>
  /\ passlog = <<>>

delim == p.Delimiters[didx]

ReaderState ==
  [buf |-> buf, berr |-> berr, src |-> src, w |-> w, pulled |-> pulled, acc |-> <<>>,
   line |-> <<>>, lerr |-> "nil", data |-> <<>>, rerr |-> "nil", rIsW |-> rIsW,
   srcErr |-> srcErr]

\* csvreader.Read() never returns: r is the non-empty buffer w, which never runs
\* dry, and it holds no line end (or nothing but line ends)
ReadDiverges == rIsW /\ w # <<>> /\ (NL \notin Range(w) \/ Range(w) = {NL})

\* prober.go:92-101: next delimiter, fresh numrecords and csvreader
NextDelim ==
  /\ pc = "range"
  /\ didx <= Len(p.Delimiters)
  /\ pc' = "loop"
  /\ i' = 0
  /\ numrecords' = <<>>
  /\ buf' = <<>>
  /\ berr' = "nil"
  /\ pulled' = <<>>
  /\ UNCHANGED <<p, input, srcErr, src, w, rIsW, didx, recordstoprobe, prob, lastErr,
                 result, err, passlog>>

\* prober.go:120-124
Entry(nr) == [Parsedrecords |-> Len(nr), Delimiter |-> delim] @@ genstatdata(nr)

\* The inner loop's epilogue with the test len(numrecords) > 1
AfterLoop_MoreThanOne(nr, consumed, st) ==
  /\ prob' = IF Len(nr) > 1 THEN Append(prob, Entry(nr)) ELSE prob
  /\ passlog' = Append(passlog, [Delimiter |-> delim, consumed |-> consumed,
                                 sample |-> nr, pulled |-> st.pulled,
                                 appended |-> SubSeq(prob', Len(prob) + 1, Len(prob'))])
  /\ rIsW' = TRUE
  /\ didx' = didx + 1
  /\ pc' = "range"

\* prober.go:118-128: after the inner loop
AfterLoop(nr, consumed, st) ==
  /\ prob' = IF Len(nr) > 0 THEN Append(prob, Entry(nr)) ELSE prob
  /\ passlog' = Append(passlog, [Delimiter |-> delim, consumed |-> consumed,
                                 sample |-> nr, pulled |-> st.pulled,
                                 appended |-> SubSeq(prob', Len(prob) + 1, Len(prob'))])
  /\ rIsW' = TRUE
  /\ didx' = didx + 1
  /\ pc' = "range"

ReaderVars(st) ==
  /\ buf' = st.buf
  /\ berr' = st.berr
  /\ src' = st.src
  /\ w' = st.w
  /\ pulled' = st.pulled

\* prober.go:103-108 and 112-115: a record, or a malformed record that is skipped
ReadRecord ==
  /\ pc = "loop"
  /\ i < recordstoprobe
  /\ ~ReadDiverges
  /\ LET rd == Read(ReaderState, delim)
     IN  /\ rd.err \in {"nil", "parse"}
         /\ numrecords' = IF rd.err = "nil" THEN Append(numrecords, rd.data) ELSE numrecords
         /\ lastErr' = rd.err
         /\ ReaderVars(rd.st)
  /\ i' = i + 1
  /\ UNCHANGED <<p, input, srcErr, rIsW, didx, pc, recordstoprobe, prob, result, err,
                 passlog>>

\* The end-of-stream branch without recordstoprobe = i
ReadEOF_KeepsBudget ==
  /\ pc = "loop"
  /\ i < recordstoprobe
  /\ ~ReadDiverges
  /\ LET rd == Read(ReaderState, delim)
     IN  /\ rd.err = "EOF"
         /\ lastErr' = rd.err
         /\ ReaderVars(rd.st)
         /\ AfterLoop(numrecords, i, rd.st)
  /\ UNCHANGED <<p, input, srcErr, i, recordstoprobe, numrecords, result, err>>

\* prober.go:109-111, then 118-128
ReadEOF ==
  /\ pc = "loop"
  /\ i < recordstoprobe
  /\ ~ReadDiverges
  /\ LET rd == Read(ReaderState, delim)
     IN  /\ rd.err = "EOF"
         /\ lastErr' = rd.err
         /\ ReaderVars(rd.st)
         /\ AfterLoop(numrecords, i, rd.st)
  /\ recordstoprobe' = i
  /\ UNCHANGED <<p, input, srcErr, i, numrecords, result, err>>

\* A read error handled like a malformed record: skipped, the loop goes on
ReadFails_Skips ==
  /\ pc = "loop"
  /\ i < recordstoprobe
  /\ ~ReadDiverges
  /\ LET rd == Read(ReaderState, delim)
     IN  /\ rd.err \notin {"nil", "EOF", "parse"}
         /\ lastErr' = rd.err
         /\ ReaderVars(rd.st)
  /\ i' = i + 1
  /\ UNCHANGED <<p, input, srcErr, rIsW, didx, pc, recordstoprobe, numrecords, prob,
                 result, err, passlog>>

\* prober.go:112-114: return nil, err
ReadFails ==
  /\ pc = "loop"
  /\ i < recordstoprobe
  /\ ~ReadDiverges
  /\ LET rd == Read(ReaderState, delim)
     IN  /\ rd.err \notin {"nil", "EOF", "parse"}
         /\ lastErr' = rd.err
         /\ err' = rd.err
         /\ ReaderVars(rd.st)
  /\ result' = Nil
  /\ pc' = "failed"
  /\ UNCHANGED <<p, input, srcErr, rIsW, didx, i, recordstoprobe, numrecords, prob,
                 passlog>>

\* prober.go:105: the call does not return
ReadHangs ==
  /\ pc = "loop"
  /\ i < recordstoprobe
  /\ ReadDiverges
  /\ pc' = "hang"
  /\ UNCHANGED <<p, input, srcErr, src, w, rIsW, didx, i, recordstoprobe, numrecords,
                 prob, buf, berr, lastErr, result, err, pulled, passlog>>

\* prober.go:103 (i < recordstoprobe is false), then 118-128
LoopDone ==
  /\ pc = "loop"
  /\ i >= recordstoprobe
  /\ AfterLoop(numrecords, i, ReaderState)
  /\ UNCHANGED <<p, input, srcErr, src, w, i, recordstoprobe, numrecords, buf, berr,
                 lastErr, result, err, pulled>>

\* The return with ActualLines: p.RecordstoProbe
Return_ReportsBudget ==
  /\ pc = "range"
  /\ didx > Len(p.Delimiters)
  /\ prob' = SortProb(prob)
  /\ result' = [ActualLines |-> p.RecordstoProbe, CSVprobability |-> SortProb(prob)]
  /\ pc' = "done"
  /\ UNCHANGED <<p, input, srcErr, src, w, rIsW, didx, i, recordstoprobe, numrecords,
                 buf, berr, lastErr, err, pulled, passlog>>

\* prober.go:131-140
Return ==
  /\ pc = "range"
  /\ didx > Len(p.Delimiters)
  /\ prob' = SortProb(prob)
  /\ result' = [ActualLines |-> recordstoprobe, CSVprobability |-> SortProb(prob)]
  /\ pc' = "done"
  /\ UNCHANGED <<p, input, srcErr, src, w, rIsW, didx, i, recordstoprobe, numrecords,
                 buf, berr, lastErr, err, pulled, passlog>>

\* prober.go:86-141
Probe == NextDelim \/ ReadRecord \/ ReadEOF \/ ReadFails \/ ReadHangs \/ LoopDone \/ Return

Next == Probe

Spec == Init /\ [][Next]_vars

\* ------------------------------------------------- reference definitions
\* A direct parse of a byte string: its non-empty lines
RECURSIVE Lines(_)
Lines(s) ==
  IF s = <<>> THEN <<>>
  ELSE LET k == IndexNL(s)
       IN  IF k = 0 THEN <<s>> ELSE <<Take(s, k - 1)>> \o Lines(Drop(s, k))

NonEmpty(l) == l # <<>>
Records(s) == SelectSeq(Lines(s), NonEmpty)
RecordCount(s) == Len(Records(s))
FieldCounts(s, d) == [k \in 1..RecordCount(s) |-> 1 + CountByte(Records(s)[k], d)]

IsPrefix(s, t) == Len(s) <= Len(t) /\ s = Take(t, Len(s))
SeqMin(s) == CHOOSE x \in Range(s) : \A y \in Range(s) : x <= y
SeqMax(s) == CHOOSE x \in Range(s) : \A y \in Range(s) : y <= x
Occurrences(s, x) == Cardinality({k \in 1..Len(s) : s[k] = x})
IsPermutation(s, t) ==
  Len(s) = Len(t) /\ \A x \in Range(s) \cup Range(t) : Occurrences(s, x) = Occurrences(t, x)

Done == pc = "done"
NumPasses == Len(passlog)
MaxConsumed ==
  IF passlog = <<>> THEN 0
  ELSE SeqMax([k \in 1..Len(passlog) |-> passlog[k].consumed])
Ranked == result.CSVprobability
CvLeq(a, b) == ~RatLess(CvSquared(b), CvSquared(a))

\* The entries in the order the passes appended them
RECURSIVE BuiltUpTo(_)
BuiltUpTo(k) == IF k = 0 THEN <<>> ELSE BuiltUpTo(k - 1) \o passlog[k].appended
Built == BuiltUpTo(Len(passlog))

\* ------------------------------------------------------------------ claims

\* C1: replaying the input across the passes neither loses nor duplicates bytes:
\* what a pass reads from its source is the original content, as far as the pass
\* reads, and once Probe has returned after N >= 1 passes the replay buffer holds
\* as many records as a direct parse of the original input yields.  The second
\* part is stated for the runs whose first pass has read the caller's reader to
\* its end, so that w has captured all of the input: a violation there is a
\* violation of the claim, which speaks of every input.
C1_ReplayLossless ==
  /\ IsPrefix(pulled, input)
  /\ \A k \in 1..Len(passlog) : IsPrefix(passlog[k].pulled, input)
  /\ (Done /\ NumPasses >= 1 /\ src = <<>>) => RecordCount(w) = RecordCount(input)

\* C2: for every non-empty sample, Min and Max are the true minimum and maximum
\* and Min <= LQ <= Median <= UQ <= Max.
C2_OrderStatistics ==
  \A k \in 1..Len(passlog) :
    passlog[k].sample # <<>> =>
      LET res == genstatdata(passlog[k].sample)
      IN  /\ res.Min = SeqMin(passlog[k].sample)
          /\ res.Max = SeqMax(passlog[k].sample)
          /\ res.Min <= res.LQ
          /\ res.LQ <= res.Median
          /\ res.Median <= res.UQ
          /\ res.UQ <= res.Max

\* C3: LQ, Median and UQ are the elements of the ascending sample at the
\* positions n/4, n/2 and n*3/4 (integer division).
C3_QuartilePositions ==
  \A k \in 1..Len(passlog) :
    passlog[k].sample # <<>> =>
      LET res == genstatdata(passlog[k].sample)
          sorted == SortInts(passlog[k].sample)
          n == Len(sorted)
      IN  /\ res.LQ = At(sorted, n \div 4)
          /\ res.Median = At(sorted, n \div 2)
          /\ res.UQ = At(sorted, (n * 3) \div 4)

C7_RankedAscending ==
  Done =>
    /\ \A a, b \in 1..Len(Ranked) : a < b => CvLeq(Ranked[a], Ranked[b])
    /\ IsPermutation(Ranked, Built)

C7_Witness ==
  /\ Done
  /\ Len(Ranked) >= 2
  /\ Ranked # Built
  /\ RatLess(CvSquared(Ranked[1]), CvSquared(Ranked[2]))

\* The <<Delimiter, Parsedrecords>> of the returned entries, and of the passes
\* that parsed at least one record
RankedPairs == [k \in 1..Len(Ranked) |-> <<Ranked[k].Delimiter, Ranked[k].Parsedrecords>>]
ParsedSome(e) == e.sample # <<>>
ParsedPairs ==
  LET some == SelectSeq(passlog, ParsedSome)
  IN  [k \in 1..Len(some) |-> <<some[k].Delimiter, Len(some[k].sample)>>]
NothingParsed == \A k \in 1..Len(passlog) : passlog[k].sample = <<>>

C8_WitnessEntries ==
  /\ Done
  /\ NumPasses >= 2
  /\ Len(Ranked) = NumPasses
  /\ \E k \in 1..Len(passlog) : Len(passlog[k].sample) = 1

\* C9: a read that fails with an error that is neither end-of-stream nor a
\* malformed record ends Probe at once: it returns that error and no result, and
\* takes no further step (no further read, no later candidate).
C9_FatalErrorAborts ==
  /\ [](lastErr \notin {"none", "nil", "EOF", "parse"} =>
          (pc = "failed" /\ result = Nil /\ err = lastErr))
  /\ [][pc # "failed"]_vars

C9_Witness ==
  /\ pc = "failed"
  /\ lastErr = "io"
  /\ numrecords # <<>>
  /\ didx < Len(p.Delimiters)
  /\ result = Nil

\* C10: the budget only shrinks from pass to pass, and in every returned result
\* each entry's Parsedrecords is at most ActualLines.
C10_ParsedAtMostActualLines ==
  /\ [][recordstoprobe' <= recordstoprobe]_vars
  /\ [](Done => \A k \in 1..Len(Ranked) : Ranked[k].Parsedrecords <= result.ActualLines)

C10_Witness ==
  /\ Done
  /\ NumPasses >= 2
  /\ result.ActualLines < p.RecordstoProbe
  /\ Len(Ranked) >= 2
  /\ \A k \in 1..Len(Ranked) : Ranked[k].Parsedrecords = result.ActualLines
====
